---- MODULE Spec2Model ----
(***************************************************************************)
(* Credential vault (SecureStorage), request throttle (RateLimiter), input *)
(* governor (InputValidator) and audit log (SecurityLogger) of             *)
(* src/utils/security.ts, with the chat pipeline (RecruitmentChat) and the *)
(* key dialog (SecureApiKeyDialog) that use them, modelled as state        *)
(* machines over localStorage, the wall clock, the admission record and    *)
(* the components' state.                                                  *)
(***************************************************************************)
EXTENDS Integers, Sequences, FiniteSets, TLC

VARIABLES
    storage,      \* localStorage: SALT_KEY and API_KEY entries
    cryptoAvail,  \* whether crypto.subtle works in this browsing context
    storing,      \* a storeApiKey call in progress: where it is suspended, its locals
    vOp,          \* last vault operation that completed
    vRel,         \* history: how the passphrase of the last retrieveApiKey
                  \* relates to the one of the last completed store
    vRet,         \* value the last vault operation returned
    vThrew,       \* whether the last vault operation threw
    vNote,        \* history: why the last retrieveApiKey could not open the
                  \* package; for a clear, what it found
    stored,       \* history: the (secret, passphrase) of the last completed store
    now,          \* Date.now()
    ticks,        \* number of clock advances so far
    requests,     \* RateLimiter.requests
    rOp,          \* last throttle operation
    rRet,         \* value the last throttle operation returned
    rPre,         \* RateLimiter.requests when the last throttle operation began
    admitted,     \* history: the last MAX_REQUESTS_PER_MINUTE + 1 admission times
    burst,        \* history: progress of a burst that began on an empty record
    valOp,        \* last InputValidator call
    valIn,        \* its argument
    valFrags,     \* number of fragments typed into the argument
    valRet,       \* the object it returned
    input,        \* RecruitmentChat: text of the input field
    isLoading,    \* RecruitmentChat: a submission is being processed
    rateLimitError,  \* RecruitmentChat: a rate limit alert is set
    showApiKeyInput, \* RecruitmentChat: the key dialog is shown
    chatApiKey,   \* RecruitmentChat: the apiKey prop
    pending,      \* the outstanding provider call and its prompt
    inFlight,     \* number of provider calls sent and not yet settled
    shown,        \* content of the last message the assistant added to the chat
    chOp,         \* history: last chat handler and how it ended
    chCall,       \* history: the last submission handleSubmit processed
    logs,         \* SecurityLogger: the persisted entries
    logged,       \* number of logEvent calls so far
    logStatus,    \* what the log's localStorage item holds
    history,      \* every entry handed to logEvent, while nothing disturbed the log
    lCall,        \* the last logEvent call: storage mode and whether it threw
    isUnlocking,  \* SecureApiKeyDialog: the unlock view is shown
    useEncryption,   \* SecureApiKeyDialog: the "encrypt and store" checkbox
    dlgError,     \* SecureApiKeyDialog: the error text shown
    dOp,          \* history: how the last dialog handler ended
    dLogged       \* history: whether that handler appended to the log

vaultVars == <<storage, cryptoAvail, storing, vOp, vRel, vRet, vThrew, vNote, stored>>
throttleVars == <<now, ticks, requests, rOp, rRet, rPre, admitted, burst>>
validatorVars == <<valOp, valIn, valFrags, valRet>>
chatVars == <<input, isLoading, rateLimitError, showApiKeyInput, chatApiKey,
              pending, inFlight, shown, chOp, chCall>>
logVars == <<logs, logged, logStatus, history, lCall>>
dialogVars == <<isUnlocking, useEncryption, dlgError, dOp, dLogged>>
extVars == <<validatorVars, chatVars, logVars, dialogVars>>
vars == <<storage, cryptoAvail, storing, vOp, vRel, vRet, vThrew, vNote, stored,
          now, ticks, requests, rOp, rRet, rPre, admitted, burst,
          valOp, valIn, valFrags, valRet,
          input, isLoading, rateLimitError, showApiKeyInput, chatApiKey,
          pending, inFlight, shown, chOp, chCall, logs, logged, logStatus, history, lCall,
          isUnlocking, useEncryption, dlgError, dOp, dLogged>>

(***************************************************************************)
(* Bounds of the model.                                                    *)
(***************************************************************************)
MaxSecretLen == 1
MaxPassLen == 1
NumSalts == 2
NumIVs == 1
MaxFrags == 3
MaxLogged == 2
MaxTicks == 3
MaxWindows == 1

(***************************************************************************)
(* JavaScript strings are sequences of UTF-16 code units.                  *)
(***************************************************************************)
\* Code units the inputs are built from.  Secrets: 'a' and U+FEFF (byte order
\* mark).  Passphrases: the high surrogate U+D800 and the low surrogate
\* U+DC00, which are a valid pair only in this order.
SecretUnits == {97, 65279}
PassUnits == {55296, 56320}

StringsUpTo(units, n) == UNION {[1..k -> units] : k \in 0..n}
Secrets == StringsUpTo(SecretUnits, MaxSecretLen)
Passphrases == StringsUpTo(PassUnits, MaxPassLen)

IsHigh(u) == u >= 55296 /\ u <= 56319
IsLow(u) == u >= 56320 /\ u <= 57343

\* TextEncoder.encode, first half: the string is converted to a sequence of
\* Unicode scalar values; a surrogate pair becomes one supplementary code
\* point, an unpaired surrogate becomes U+FFFD.
RECURSIVE ToScalars(_)
ToScalars(s) ==
    IF s = <<>> THEN <<>>
    ELSE IF IsHigh(s[1]) /\ Len(s) >= 2 /\ IsLow(s[2])
         THEN <<65536 + (s[1] - 55296) * 1024 + (s[2] - 56320)>>
              \o ToScalars(SubSeq(s, 3, Len(s)))
    ELSE IF IsHigh(s[1]) \/ IsLow(s[1])
         THEN <<65533>> \o ToScalars(Tail(s))
    ELSE <<s[1]>> \o ToScalars(Tail(s))

\* TextEncoder.encode, second half: UTF-8 bytes of one scalar value.
Utf8Bytes(cp) ==
    IF cp < 128 THEN <<cp>>
    ELSE IF cp < 2048 THEN <<192 + (cp \div 64), 128 + (cp % 64)>>
    ELSE IF cp < 65536
         THEN <<224 + (cp \div 4096), 128 + ((cp \div 64) % 64), 128 + (cp % 64)>>
    ELSE <<240 + (cp \div 262144), 128 + ((cp \div 4096) % 64),
           128 + ((cp \div 64) % 64), 128 + (cp % 64)>>

RECURSIVE EncodeScalars(_)
EncodeScalars(cps) ==
    IF cps = <<>> THEN <<>>
    ELSE Utf8Bytes(cps[1]) \o EncodeScalars(Tail(cps))

\* new TextEncoder().encode(s)
TextEncode(s) == EncodeScalars(ToScalars(s))

\* UTF-8 decoding of a byte sequence into scalar values; a byte that cannot
\* start a sequence, or a truncated sequence, decodes to U+FFFD.
RECURSIVE DecodeScalars(_)
DecodeScalars(b) ==
    IF b = <<>> THEN <<>>
    ELSE IF b[1] < 128 THEN <<b[1]>> \o DecodeScalars(Tail(b))
    ELSE IF b[1] >= 192 /\ b[1] < 224 /\ Len(b) >= 2
         THEN <<(b[1] - 192) * 64 + (b[2] - 128)>>
              \o DecodeScalars(SubSeq(b, 3, Len(b)))
    ELSE IF b[1] >= 224 /\ b[1] < 240 /\ Len(b) >= 3
         THEN <<(b[1] - 224) * 4096 + (b[2] - 128) * 64 + (b[3] - 128)>>
              \o DecodeScalars(SubSeq(b, 4, Len(b)))
    ELSE IF b[1] >= 240 /\ b[1] < 248 /\ Len(b) >= 4
         THEN <<(b[1] - 240) * 262144 + (b[2] - 128) * 4096
                + (b[3] - 128) * 64 + (b[4] - 128)>>
              \o DecodeScalars(SubSeq(b, 5, Len(b)))
    ELSE <<65533>> \o DecodeScalars(Tail(b))

\* Scalar values back to UTF-16 code units.
RECURSIVE FromScalars(_)
FromScalars(cps) ==
    IF cps = <<>> THEN <<>>
    ELSE IF cps[1] >= 65536
         THEN <<55296 + ((cps[1] - 65536) \div 1024),
                56320 + ((cps[1] - 65536) % 1024)>> \o FromScalars(Tail(cps))
    ELSE <<cps[1]>> \o FromScalars(Tail(cps))

\* new TextDecoder().decode(bytes): the decoder is built with the default
\* ignoreBOM = false, so a leading byte order mark is consumed, not returned.
TextDecode(b) ==
    LET cps == DecodeScalars(b)
    IN  IF cps # <<>> /\ cps[1] = 65279
        THEN FromScalars(Tail(cps))
        ELSE FromScalars(cps)

(***************************************************************************)
(* localStorage.  An entry is absent (getItem returns null) or holds a     *)
(* string; the strings that matter are told apart by how JSON.parse and    *)
(* the callers treat them.                                                 *)
(***************************************************************************)
SALT_KEY == "recruitment_chat_salt"
API_KEY == "recruitment_chat_api_key"

Null == [t |-> "null"]                    \* no entry / the value null
EmptyStr == [t |-> "empty"]               \* the string ""
Garbage == [t |-> "garbage"]              \* a string JSON.parse rejects
JsonNull == [t |-> "jsonnull"]            \* the string "null"
JsonObj == [t |-> "jsonobj"]              \* the string "{}"
SaltJson(salt) == [t |-> "bytes", v |-> salt]
PkgJson_WithKey(data, iv) == [t |-> "pkg", data |-> data, iv |-> iv, key |-> data.key]
PkgJson(data, iv) == [t |-> "pkg", data |-> data, iv |-> iv]
Str(s) == [t |-> "str", v |-> s]
Bool(b) == [t |-> "bool", v |-> b]

Salts == 1..NumSalts
IVs == 1..NumIVs

\* new Uint8Array(JSON.parse(existingSalt)) for a string JSON.parse accepts:
\* the stored byte array, or an empty array for null and for {}.
ParsedSalt(entry) == IF entry.t = "bytes" THEN entry.v ELSE 0

\* Variant that draws and persists a salt on every call.
generateSalt_Regenerates(st, rnd) ==
    [kind |-> "ok", err |-> "", salt |-> rnd,
     st |-> [st EXCEPT ![SALT_KEY] = SaltJson(rnd)]]

\* generateSalt: reuse the persisted salt, else draw one and persist it.
generateSalt(st, rnd) ==
    LET existingSalt == st[SALT_KEY]
    IN  IF existingSalt # Null /\ existingSalt # EmptyStr
        THEN IF existingSalt = Garbage
             THEN [kind |-> "throw", err |-> "SyntaxError", salt |-> 0, st |-> st]
             ELSE [kind |-> "ok", err |-> "", salt |-> ParsedSalt(existingSalt),
                   st |-> st]
        ELSE [kind |-> "ok", err |-> "", salt |-> rnd,
              st |-> [st EXCEPT ![SALT_KEY] = SaltJson(rnd)]]

\* deriveKey: PBKDF2 over the UTF-8 bytes of the passphrase and the salt.
\* The key is determined by exactly these two inputs.
deriveKey(passphrase, salt) == [pw |-> TextEncode(passphrase), salt |-> salt]

\* AES-GCM: a ciphertext opens only under the key and nonce that made it,
\* and only when no byte of it was altered.
Encrypt(key, iv, data) == [key |-> key, iv |-> iv, pt |-> data, intact |-> TRUE]
DecryptOk(key, iv, ct) == ct.intact /\ ct.key = key /\ ct.iv = iv

\* Body of storeApiKey's try block.
storeApiKeyBody(st, apiKey, passphrase, rndSalt, rndIv, avail) ==
    LET g == generateSalt(st, rndSalt)
    IN  IF g.kind = "throw"
        THEN [kind |-> "throw", err |-> g.err, st |-> g.st]
        ELSE IF ~avail
        THEN [kind |-> "throw", err |-> "TypeError", st |-> g.st]
        ELSE LET key == deriveKey(passphrase, g.salt)
                 data == TextEncode(apiKey)
                 encryptedData == Encrypt(key, rndIv, data)
             IN  [kind |-> "return", err |-> "",
                  st |-> [g.st EXCEPT ![API_KEY] = PkgJson(encryptedData, rndIv)]]

\* storeApiKey: any exception of the body is replaced by one fixed error.
storeApiKey(st, apiKey, passphrase, rndSalt, rndIv, avail) ==
    LET r == storeApiKeyBody(st, apiKey, passphrase, rndSalt, rndIv, avail)
    IN  IF r.kind = "throw"
        THEN [kind |-> "throw", err |-> "Failed to encrypt API key", st |-> r.st]
        ELSE r

\* Body of retrieveApiKey's try block.
retrieveApiKeyBody(st, passphrase, rndSalt, avail) ==
    LET encryptedPackage == st[API_KEY]
    IN  IF encryptedPackage = Null \/ encryptedPackage = EmptyStr
        THEN [kind |-> "return", err |-> "", val |-> Null, st |-> st]
        ELSE IF encryptedPackage.t = "garbage"
        THEN [kind |-> "throw", err |-> "SyntaxError", val |-> Null, st |-> st]
        ELSE IF encryptedPackage.t = "jsonnull"
        THEN [kind |-> "throw", err |-> "TypeError", val |-> Null, st |-> st]
        ELSE LET g == generateSalt(st, rndSalt)
             IN  IF g.kind = "throw"
                 THEN [kind |-> "throw", err |-> g.err, val |-> Null, st |-> g.st]
                 ELSE IF ~avail
                 THEN [kind |-> "throw", err |-> "TypeError", val |-> Null,
                       st |-> g.st]
                 ELSE IF encryptedPackage.t # "pkg"
                 THEN [kind |-> "throw", err |-> "OperationError", val |-> Null,
                       st |-> g.st]
                 ELSE IF ~DecryptOk(deriveKey(passphrase, g.salt),
                                    encryptedPackage.iv, encryptedPackage.data)
                 THEN [kind |-> "throw", err |-> "OperationError", val |-> Null,
                       st |-> g.st]
                 ELSE [kind |-> "return", err |-> "",
                       val |-> Str(TextDecode(encryptedPackage.data.pt)),
                       st |-> g.st]

\* Variant whose catch clause also removes the entries it could not open.
retrieveApiKey_ClearsOnFailure(st, passphrase, rndSalt, avail) ==
    LET r == retrieveApiKeyBody(st, passphrase, rndSalt, avail)
    IN  IF r.kind = "throw"
        THEN [kind |-> "return", err |-> "", val |-> Null,
              st |-> [r.st EXCEPT ![API_KEY] = Null, ![SALT_KEY] = Null]]
        ELSE r

\* Variant without the catch clause: an exception of the body escapes.
retrieveApiKey_NoCatch(st, passphrase, rndSalt, avail) ==
    retrieveApiKeyBody(st, passphrase, rndSalt, avail)

\* retrieveApiKey: every exception of the body becomes the return value null.
retrieveApiKey(st, passphrase, rndSalt, avail) ==
    LET r == retrieveApiKeyBody(st, passphrase, rndSalt, avail)
    IN  IF r.kind = "throw"
        THEN [kind |-> "return", err |-> "", val |-> Null, st |-> r.st]
        ELSE r

\* Variant that forgets the salt entry.
clearStoredCredentials_KeepsSalt(st) == [st EXCEPT ![API_KEY] = Null]

\* clearStoredCredentials: removeItem of both entries.
clearStoredCredentials(st) ==
    [st EXCEPT ![API_KEY] = Null, ![SALT_KEY] = Null]

\* hasStoredApiKey
hasStoredApiKey(st) == st[API_KEY] # Null

(***************************************************************************)
(* Vault operations as actions.  Calls do not overlap in this              *)
(* specification: each action is one call run to completion.               *)
(***************************************************************************)
NoStore == [t |-> "none"]

\* The state of localStorage that keeps a retrieveApiKey call from opening
\* the package: no package entry, an entry or salt that is not what the vault
\* wrote, or a derived key other than the one that sealed the package.
FailureCause(st, P, rndSalt) ==
    LET pkg == st[API_KEY]
        salt == st[SALT_KEY]
        used == IF salt \in {Null, EmptyStr} THEN rndSalt ELSE ParsedSalt(salt)
    IN  IF pkg = Null THEN "missing"
        ELSE IF pkg.t # "pkg" \/ salt = Garbage THEN "corrupt"
        ELSE IF ~pkg.data.intact THEN "corrupt"
        ELSE IF pkg.data.key # deriveKey(P, used) THEN "wrongkey"
        ELSE "none"

\* storeApiKey is async: it is suspended at await generateSalt(), at await
\* deriveKey(...) and at await crypto.subtle.encrypt(...).
Suspended == {"awaitSalt", "awaitKey", "awaitEncrypt"}
NotStoring == [pc |-> "idle", S |-> <<>>, P |-> <<>>, salt |-> 0, iv |-> 0, cleared |-> FALSE]

StoreSecret(S, P, rndSalt, rndIv) ==
    LET r == storeApiKey(storage, S, P, rndSalt, rndIv, cryptoAvail)
    IN  /\ storage' = r.st
        /\ vOp' = "store"
        /\ vRel' = "none"
        /\ vRet' = Null
        /\ vThrew' = (r.kind = "throw")
        /\ vNote' = "none"
        /\ stored' = IF r.kind = "throw" THEN NoStore
                     ELSE [t |-> "some", S |-> S, P |-> P]
        /\ UNCHANGED <<storing, cryptoAvail, throttleVars, extVars>>

RetrieveSecret(P, rndSalt) ==
    LET r == retrieveApiKey(storage, P, rndSalt, cryptoAvail)
    IN  /\ storage' = r.st
        /\ vOp' = "retrieve"
        /\ vRel' = IF stored.t # "some" THEN "none"
                   ELSE IF P = stored.P THEN "same" ELSE "other"
        /\ vRet' = r.val
        /\ vThrew' = (r.kind = "throw")
        /\ vNote' = FailureCause(storage, P, rndSalt)
        /\ UNCHANGED <<stored, storing, cryptoAvail, throttleVars, extVars>>

ClearStored ==
    /\ storage' = clearStoredCredentials(storage)
    /\ vOp' = "clear"
    /\ vRel' = "none"
    /\ vRet' = Null
    /\ vThrew' = FALSE
    /\ vNote' = IF vOp = "clear" THEN "again"
                ELSE IF \A k \in DOMAIN storage : storage[k] = Null THEN "empty"
                ELSE "removed"
    /\ stored' = NoStore
    /\ storing' = IF storing.pc \in Suspended
                  THEN [storing EXCEPT !.cleared = TRUE]
                  ELSE storing
    /\ UNCHANGED <<cryptoAvail, throttleVars, extVars>>

HasStored ==
    /\ vOp' = "has"
    /\ vRel' = "none"
    /\ vRet' = Bool(hasStoredApiKey(storage))
    /\ vThrew' = FALSE
    /\ vNote' = "none"
    /\ UNCHANGED <<storage, stored, storing, cryptoAvail, throttleVars, extVars>>

\* Strings another script of the same origin, or the user, can put in an
\* entry: localStorage enforces no schema.
ForeignValues(k) ==
    {Null, EmptyStr, Garbage, JsonNull}
    \cup (IF k = SALT_KEY THEN {SaltJson(s) : s \in Salts} ELSE {JsonObj})
    \cup (IF k = API_KEY /\ storage[API_KEY].t = "pkg"
          THEN {PkgJson([storage[API_KEY].data EXCEPT !.intact = FALSE],
                        storage[API_KEY].iv)}
          ELSE {})

ForeignWrite(k, v) ==
    /\ v # storage[k]
    /\ storage' = [storage EXCEPT ![k] = v]
    /\ vOp' = "foreign"
    /\ vRel' = "none"
    /\ vRet' = Null
    /\ vThrew' = FALSE
    /\ vNote' = "none"
    /\ stored' = NoStore
    /\ UNCHANGED <<storing, cryptoAvail, throttleVars, extVars>>

\* crypto.getRandomValues is consulted for a salt only when none is persisted.
RandomSalts ==
    IF storage[SALT_KEY] \in {Null, EmptyStr} THEN Salts ELSE {1}

\* storeApiKey is called: generateSalt runs at once (it reads the salt entry
\* or draws a salt and persists it), then the call is suspended.
StoreBegins(S, P, rndSalt) ==
    /\ storing.pc \notin Suspended
    /\ cryptoAvail
    /\ LET g == generateSalt(storage, rndSalt)
       IN  /\ storage' = g.st
           /\ storing' = IF g.kind = "throw"
                          THEN [NotStoring EXCEPT !.pc = "failed", !.S = S, !.P = P]
                          ELSE [pc |-> "awaitSalt", S |-> S, P |-> P,
                                salt |-> g.salt, iv |-> 0, cleared |-> FALSE]
    /\ vOp' = "store_begins"
    /\ vRel' = "none"
    /\ vRet' = Null
    /\ vThrew' = FALSE
    /\ vNote' = "none"
    /\ stored' = NoStore
    /\ UNCHANGED <<cryptoAvail, throttleVars, extVars>>

\* The suspended call resumes and runs to its next await: deriveKey with the
\* salt it holds, then the nonce is drawn and encrypt is started.
StoreResumes(rndIv) ==
    /\ storing.pc \in {"awaitSalt", "awaitKey"}
    /\ storing' = IF storing.pc = "awaitSalt"
                  THEN [storing EXCEPT !.pc = "awaitKey"]
                  ELSE [storing EXCEPT !.pc = "awaitEncrypt", !.iv = rndIv]
    /\ UNCHANGED <<storage, cryptoAvail, vOp, vRel, vRet, vThrew, vNote, stored,
                   throttleVars, extVars>>

\* encrypt has settled: the package is written under the key derived from the
\* salt the call holds.
StoreCompletes ==
    /\ storing.pc = "awaitEncrypt"
    /\ LET key == deriveKey(storing.P, storing.salt)
           encryptedData == Encrypt(key, storing.iv, TextEncode(storing.S))
       IN  storage' = [storage EXCEPT ![API_KEY] = PkgJson(encryptedData, storing.iv)]
    /\ storing' = [storing EXCEPT !.pc = "done"]
    /\ vOp' = "store"
    /\ vRel' = "none"
    /\ vRet' = Null
    /\ vThrew' = FALSE
    /\ vNote' = "none"
    /\ stored' = [t |-> "some", S |-> storing.S, P |-> storing.P]
    /\ UNCHANGED <<cryptoAvail, throttleVars, extVars>>

\* Secrets that TextEncoder and TextDecoder carry unchanged.
PlainSecrets == {S \in Secrets : TextDecode(TextEncode(S)) = S}

InitVault ==
    /\ storage = [k \in {SALT_KEY, API_KEY} |-> Null]
    /\ cryptoAvail \in BOOLEAN
    /\ vOp = "init"
    /\ vRel = "none"
    /\ vRet = Null
    /\ vThrew = FALSE
    /\ vNote = "none"
    /\ stored = NoStore
    /\ storing = NotStoring

NextVault ==
    \/ \E S \in Secrets, P \in Passphrases, s \in RandomSalts, i \in IVs :
           StoreSecret(S, P, s, i)
    \/ \E P \in Passphrases, s \in RandomSalts : RetrieveSecret(P, s)
    \/ ClearStored
    \/ HasStored
    \/ \E k \in {SALT_KEY, API_KEY} : \E v \in ForeignValues(k) : ForeignWrite(k, v)

(***************************************************************************)
(* Request throttle (RateLimiter).                                         *)
(***************************************************************************)
MAX_REQUESTS_PER_MINUTE == 10
WINDOW_SIZE == 60000

\* Clock advances the model takes between calls, in milliseconds.
Deltas == {1, WINDOW_SIZE - 1, WINDOW_SIZE}

Max(a, b) == IF a >= b THEN a ELSE b

\* Math.min(...requests) of a non-empty array
MinOf(reqs) ==
    CHOOSE m \in {reqs[i] : i \in DOMAIN reqs} :
        \A i \in DOMAIN reqs : m <= reqs[i]

\* Variants of the filter predicate: boundary taken the other way, and a
\* window one millisecond short.
InWindow_Inclusive(t, timestamp) == t - timestamp <= WINDOW_SIZE
InWindow_Short(t, timestamp) == t - timestamp < WINDOW_SIZE - 1

\* The filter predicate of canMakeRequest: timestamp => now - timestamp < WINDOW_SIZE
InWindow(t, timestamp) == t - timestamp < WINDOW_SIZE

\* Variant of the cap test that is off by one.
AtCap_OffByOne(reqs) == Len(reqs) > MAX_REQUESTS_PER_MINUTE

\* The cap test of canMakeRequest
AtCap(reqs) == Len(reqs) >= MAX_REQUESTS_PER_MINUTE

\* Variant that records the attempt even when it rejects it.
canMakeRequest_RecordsRejected(reqs, t) ==
    LET kept == SelectSeq(reqs, LAMBDA timestamp : t - timestamp < WINDOW_SIZE)
    IN  [ret |-> Len(kept) < MAX_REQUESTS_PER_MINUTE, requests |-> Append(kept, t)]

\* canMakeRequest called when Date.now() is t
canMakeRequest(reqs, t) ==
    LET kept == SelectSeq(reqs, LAMBDA timestamp : InWindow(t, timestamp))
    IN  IF AtCap(kept)
        THEN [ret |-> FALSE, requests |-> kept]
        ELSE [ret |-> TRUE, requests |-> Append(kept, t)]

\* Variants: one that prunes the record as canMakeRequest does, one without
\* the clamp at zero.
getTimeUntilNextRequest_Prunes(reqs, t) ==
    LET kept == SelectSeq(reqs, LAMBDA timestamp : t - timestamp < WINDOW_SIZE)
    IN  IF Len(kept) = 0
        THEN [ret |-> 0, requests |-> kept]
        ELSE [ret |-> Max(0, WINDOW_SIZE - (t - MinOf(kept))), requests |-> kept]

getTimeUntilNextRequest_NoClamp(reqs, t) ==
    IF Len(reqs) = 0
    THEN [ret |-> 0, requests |-> reqs]
    ELSE [ret |-> WINDOW_SIZE - (t - MinOf(reqs)), requests |-> reqs]

\* Variant that reports one millisecond less than the oldest entry needs.
getTimeUntilNextRequest_OneShort(reqs, t) ==
    IF Len(reqs) = 0
    THEN [ret |-> 0, requests |-> reqs]
    ELSE [ret |-> Max(0, WINDOW_SIZE - 1 - (t - MinOf(reqs))), requests |-> reqs]

\* getTimeUntilNextRequest called when Date.now() is t
getTimeUntilNextRequest(reqs, t) ==
    IF Len(reqs) = 0
    THEN [ret |-> 0, requests |-> reqs]
    ELSE LET oldestRequest == MinOf(reqs)
             timeUntilReset == WINDOW_SIZE - (t - oldestRequest)
         IN  [ret |-> Max(0, timeUntilReset), requests |-> reqs]

LastN(seq, n) ==
    IF Len(seq) <= n THEN seq ELSE SubSeq(seq, Len(seq) - n + 1, Len(seq))

NoBurst == [t |-> -1, res |-> <<>>, after |-> "none"]

\* History of the burst that began on the empty record: the results of the
\* calls made at that same instant, and the result of the first call made
\* once a full window has passed since a burst of more than the cap.
BurstAfter(ret) ==
    IF requests = <<>>
    THEN [t |-> now, res |-> <<ret>>, after |-> "none"]
    ELSE IF burst.t = now /\ burst.after = "none"
              /\ Len(burst.res) <= MAX_REQUESTS_PER_MINUTE
    THEN [burst EXCEPT !.res = Append(@, ret)]
    ELSE IF burst.t >= 0 /\ burst.after = "none"
              /\ Len(burst.res) > MAX_REQUESTS_PER_MINUTE
              /\ now - burst.t >= WINDOW_SIZE
    THEN [burst EXCEPT !.after = IF ret THEN "admitted" ELSE "rejected"]
    ELSE burst

CanAdmit ==
    LET r == canMakeRequest(requests, now)
    IN  /\ requests' = r.requests
        /\ rOp' = "canAdmit"
        /\ rRet' = Bool(r.ret)
        /\ rPre' = requests
        /\ admitted' = IF r.ret
                       THEN LastN(Append(admitted, now), MAX_REQUESTS_PER_MINUTE + 1)
                       ELSE admitted
        /\ burst' = BurstAfter(r.ret)
        /\ UNCHANGED <<now, ticks, vaultVars, extVars>>

TimeUntilNextSlot ==
    LET r == getTimeUntilNextRequest(requests, now)
    IN  /\ requests' = r.requests
        /\ rOp' = "timeUntil"
        /\ rRet' = [t |-> "num", v |-> r.ret]
        /\ rPre' = requests
        /\ UNCHANGED <<now, ticks, admitted, burst, vaultVars, extVars>>

\* Date.now() moves forward between calls.
Tick(d) ==
    /\ ticks < MaxTicks
    /\ now' = now + d
    /\ ticks' = ticks + 1
    /\ rOp' = "tick"
    /\ rRet' = Null
    /\ rPre' = requests
    /\ UNCHANGED <<requests, admitted, burst, vaultVars, extVars>>

InitThrottle ==
    /\ now = 0
    /\ ticks = 0
    /\ requests = <<>>
    /\ rOp = "init"
    /\ rRet = Null
    /\ rPre = <<>>
    /\ admitted = <<>>
    /\ burst = NoBurst

NextThrottle ==
    \/ CanAdmit
    \/ TimeUntilNextSlot
    \/ \E d \in Deltas : Tick(d)

(***************************************************************************)
(* Input governor (InputValidator): strings.                               *)
(*                                                                         *)
(* A string is a sequence of runs [c, n], the character c repeated n       *)
(* times, so that a text of 4000 characters stays a short sequence.  Only  *)
(* the filler letter "x" occurs with n > 1; it is a word character that    *)
(* occurs in none of the literals of the regular expressions below.        *)
(***************************************************************************)
MAX_MESSAGE_LENGTH == 4000
MAX_API_KEY_LENGTH == 200

Ch(c) == [c |-> c, n |-> 1]
Lit(cs) == [i \in 1..Len(cs) |-> Ch(cs[i])]
Filler(n) == IF n <= 0 THEN <<>> ELSE <<[c |-> "x", n |-> n]>>

\* String.prototype.length
RECURSIVE StrLength(_)
StrLength(s) == IF s = <<>> THEN 0 ELSE s[1].n + StrLength(Tail(s))

UpperCase ==
    <<"A", "B", "C", "D", "E", "F", "G", "H", "I", "J", "K", "L", "M",
      "N", "O", "P", "Q", "R", "S", "T", "U", "V", "W", "X", "Y", "Z">>
LowerCase ==
    <<"a", "b", "c", "d", "e", "f", "g", "h", "i", "j", "k", "l", "m",
      "n", "o", "p", "q", "r", "s", "t", "u", "v", "w", "x", "y", "z">>
Digits == {"0", "1", "2", "3", "4", "5", "6", "7", "8", "9"}

\* \s and the characters String.prototype.trim removes
IsSpace(c) == c \in {" ", "\n", "\t"}
\* \w
IsWord(c) ==
    \/ \E i \in DOMAIN LowerCase : c = LowerCase[i] \/ c = UpperCase[i]
    \/ c \in Digits \cup {"_"}

\* Case folding of the i flag.
LowerOf(c) ==
    IF \E i \in DOMAIN UpperCase : UpperCase[i] = c
    THEN LowerCase[CHOOSE i \in DOMAIN UpperCase : UpperCase[i] = c]
    ELSE c
Fold(s) == [i \in 1..Len(s) |-> [c |-> LowerOf(s[i].c), n |-> s[i].n]]

\* String.prototype.trim
Trim(s) ==
    LET keep == {i \in 1..Len(s) : ~IsSpace(s[i].c)}
    IN  IF keep = {} THEN <<>>
        ELSE SubSeq(s, CHOOSE i \in keep : \A j \in keep : i <= j,
                       CHOOSE i \in keep : \A j \in keep : i >= j)

\* String.prototype.startsWith (case-sensitive)
StartsWith(s, lit) ==
    /\ Len(s) >= Len(lit)
    /\ \A k \in 1..Len(lit) : s[k] = lit[k]

(***************************************************************************)
(* Input governor: the regular expressions of validateMessage.  A match is *)
(* computed on the folded text f; MatchEnd gives the index of the last run *)
(* of the match that starts at run i, or 0 when none starts there.         *)
(***************************************************************************)
L_ignore == Lit(<<"i", "g", "n", "o", "r", "e">>)
L_previous == Lit(<<"p", "r", "e", "v", "i", "o", "u", "s">>)
L_instructions ==
    Lit(<<"i", "n", "s", "t", "r", "u", "c", "t", "i", "o", "n", "s">>)
L_forget == Lit(<<"f", "o", "r", "g", "e", "t">>)
L_everything == Lit(<<"e", "v", "e", "r", "y", "t", "h", "i", "n", "g">>)
L_you == Lit(<<"y", "o", "u">>)
L_are == Lit(<<"a", "r", "e">>)
L_now == Lit(<<"n", "o", "w">>)
L_scriptOpen == Lit(<<"<", "s", "c", "r", "i", "p", "t">>)
L_scriptClose == Lit(<<"<", "/", "s", "c", "r", "i", "p", "t", ">">>)
L_javascript == Lit(<<"j", "a", "v", "a", "s", "c", "r", "i", "p", "t", ":">>)
L_on == Lit(<<"o", "n">>)
L_sk == Lit(<<"s", "k", "-">>)

HasLit(f, lit, i) ==
    /\ i >= 1
    /\ i + Len(lit) - 1 <= Len(f)
    /\ \A k \in 1..Len(lit) : f[i + k - 1] = lit[k]

RECURSIVE SkipSpace(_, _)
SkipSpace(f, i) ==
    IF i <= Len(f) /\ IsSpace(f[i].c) THEN SkipSpace(f, i + 1) ELSE i

RECURSIVE SkipWord(_, _)
SkipWord(f, i) ==
    IF i <= Len(f) /\ IsWord(f[i].c) THEN SkipWord(f, i + 1) ELSE i

\* first index >= i holding the character c, or 0
RECURSIVE FirstChar(_, _, _)
FirstChar(f, c, i) ==
    IF i > Len(f) THEN 0
    ELSE IF f[i].c = c THEN i
    ELSE FirstChar(f, c, i + 1)

\* word1 \s+ word2 \s+ ... starting at i
RECURSIVE WordsEnd(_, _, _)
WordsEnd(f, lits, i) ==
    IF ~HasLit(f, lits[1], i) THEN 0
    ELSE LET j == i + Len(lits[1])
         IN  IF Len(lits) = 1 THEN j - 1
             ELSE LET k == SkipSpace(f, j)
                  IN  IF k = j THEN 0 ELSE WordsEnd(f, Tail(lits), k)

\* .*?<\/script> from i: the nearest closing tag not preceded by a newline
RECURSIVE LazyClose(_, _)
LazyClose(f, i) ==
    IF i > Len(f) THEN 0
    ELSE IF HasLit(f, L_scriptClose, i) THEN i + Len(L_scriptClose) - 1
    ELSE IF f[i].c = "\n" THEN 0
    ELSE LazyClose(f, i + 1)

MatchEnd(pat, f, i) ==
    CASE pat = "ignorePrevious" ->
            WordsEnd(f, <<L_ignore, L_previous, L_instructions>>, i)
      [] pat = "forgetEverything" ->
            WordsEnd(f, <<L_forget, L_everything>>, i)
      [] pat = "youAreNow" ->
            WordsEnd(f, <<L_you, L_are, L_now>>, i)
      [] pat = "scriptOpen" ->
            IF HasLit(f, L_scriptOpen, i)
            THEN FirstChar(f, ">", i + Len(L_scriptOpen)) ELSE 0
      [] pat = "javascriptUri" ->
            IF HasLit(f, L_javascript, i)
            THEN i + Len(L_javascript) - 1 ELSE 0
      [] pat = "onHandler" ->
            IF ~HasLit(f, L_on, i) THEN 0
            ELSE LET j == i + Len(L_on)
                     k == SkipWord(f, j)
                     l == SkipSpace(f, k)
                 IN  IF k > j /\ l <= Len(f) /\ f[l].c = "=" THEN l ELSE 0
      [] pat = "scriptBlock" ->
            IF ~HasLit(f, L_scriptOpen, i) THEN 0
            ELSE LET g == FirstChar(f, ">", i + Len(L_scriptOpen))
                 IN  IF g = 0 THEN 0 ELSE LazyClose(f, g + 1)
      [] pat = "tag" ->
            IF i <= Len(f) /\ f[i].c = "<"
            THEN FirstChar(f, ">", i + 1) ELSE 0

\* RegExp.prototype.test
Test(pat, s) ==
    LET f == Fold(s)
    IN  \E i \in 1..Len(s) : MatchEnd(pat, f, i) # 0

\* String.prototype.replace(re, '') with the g flag: matches are taken
\* leftmost first, left to right, and never overlap.
RECURSIVE RemoveFrom(_, _, _, _)
RemoveFrom(pat, s, f, i) ==
    IF i > Len(s) THEN <<>>
    ELSE LET e == MatchEnd(pat, f, i)
         IN  IF e # 0 THEN RemoveFrom(pat, s, f, e + 1)
             ELSE <<s[i]>> \o RemoveFrom(pat, s, f, i + 1)

ReplaceAll(pat, s) == RemoveFrom(pat, s, Fold(s), 1)

(***************************************************************************)
(* Input governor: validateApiKey and validateMessage.                     *)
(***************************************************************************)
Undefined == [t |-> "undefined"]
Invalid(text) == [isValid |-> FALSE, message |-> Str(text), sanitized |-> Undefined]

\* trimmed.length > MAX_API_KEY_LENGTH
KeyTooLong(trimmed) == StrLength(trimmed) > MAX_API_KEY_LENGTH

\* Variant whose length band starts at 25 characters.
KeyLengthInvalid_From25(trimmed) ==
    StrLength(trimmed) < 25 \/ StrLength(trimmed) > 60

\* trimmed.length < 40 || trimmed.length > 60
KeyLengthInvalid(trimmed) ==
    StrLength(trimmed) < 40 \/ StrLength(trimmed) > 60

validateApiKey(apiKey) ==
    IF apiKey = <<>> THEN Invalid("API key is required")
    ELSE LET trimmed == Trim(apiKey)
         IN  IF StrLength(trimmed) = 0 THEN Invalid("API key cannot be empty")
             ELSE IF KeyTooLong(trimmed) THEN Invalid("API key is too long")
             ELSE IF ~StartsWith(trimmed, L_sk)
                  THEN Invalid("Invalid API key format. OpenAI keys start with \"sk-\"")
             ELSE IF KeyLengthInvalid(trimmed)
                  THEN Invalid("API key length appears invalid")
             ELSE [isValid |-> TRUE, message |-> Undefined,
                   sanitized |-> Undefined]

\* Variant that rejects a trimmed length of exactly MAX_MESSAGE_LENGTH.
MessageTooLong_Inclusive(trimmed) == StrLength(trimmed) >= MAX_MESSAGE_LENGTH

\* trimmed.length > MAX_MESSAGE_LENGTH
MessageTooLong(trimmed) == StrLength(trimmed) > MAX_MESSAGE_LENGTH

suspiciousPatterns ==
    {"ignorePrevious", "forgetEverything", "youAreNow", "scriptOpen",
     "javascriptUri", "onHandler"}

\* Variant that leaves the markup in place.
Sanitize_KeepsTags(trimmed) ==
    ReplaceAll("onHandler",
        ReplaceAll("javascriptUri", ReplaceAll("scriptBlock", trimmed)))

\* The four chained replace calls.
Sanitize(trimmed) ==
    ReplaceAll("onHandler",
        ReplaceAll("javascriptUri",
            ReplaceAll("tag", ReplaceAll("scriptBlock", trimmed))))

\* Variant that tests the patterns on the sanitized text.
Suspicious_AfterSanitize(trimmed) ==
    \E pat \in suspiciousPatterns : Test(pat, Sanitize(trimmed))

\* for (const pattern of suspiciousPatterns) if (pattern.test(trimmed)) ...
Suspicious(trimmed) == \E pat \in suspiciousPatterns : Test(pat, trimmed)

validateMessage(message) ==
    IF message = <<>> THEN Invalid("Message is required")
    ELSE LET trimmed == Trim(message)
         IN  IF StrLength(trimmed) = 0 THEN Invalid("Message cannot be empty")
             ELSE IF MessageTooLong(trimmed)
                  THEN Invalid("Message too long. Maximum 4000 characters allowed.")
             ELSE IF Suspicious(trimmed)
                  THEN Invalid("Message contains potentially harmful content")
             ELSE [isValid |-> TRUE, message |-> Undefined,
                   sanitized |-> Str(Sanitize(trimmed))]

(***************************************************************************)
(* Input governor: the texts the model submits.                            *)
(***************************************************************************)
F_ignore ==
    Lit(<<"i", "g", "n", "o", "r", "e", " ", "p", "r", "e", "v", "i", "o",
          "u", "s", " ", "i", "n", "s", "t", "r", "u", "c", "t", "i", "o",
          "n", "s">>)
F_forget ==
    Lit(<<"F", "o", "r", "g", "e", "t", "\n", " ", "e", "v", "e", "r", "y",
          "t", "h", "i", "n", "g">>)
F_youAreNow == Lit(<<"y", "o", "u", " ", "a", "r", "e", " ", "n", "o", "w">>)
F_scriptOpen == Lit(<<"<", "s", "c", "r", "i", "p", "t">>)
F_gt == Lit(<<">">>)
F_lt == Lit(<<"<">>)
F_java == Lit(<<"j", "a", "v", "a">>)
F_scriptColon == Lit(<<"s", "c", "r", "i", "p", "t", ":">>)
F_on == Lit(<<"o", "n">>)
F_eq == Lit(<<"=">>)
F_space == Lit(<<" ">>)

Fragments ==
    {F_ignore, F_forget, F_youAreNow, F_scriptOpen, F_gt, F_lt,
     F_java, F_scriptColon, F_on, F_eq, F_space,
     Filler(1), Filler(MAX_MESSAGE_LENGTH - 1)}

M_markup ==
    Lit(<<"h", "e", "l", "l", "o", " ", "<", "b", ">", "b", "i", "g", "<", "/",
          "b", ">", " ", "w", "o", "r", "l", "d">>)
M_scriptBlock ==
    Lit(<<"<", "s", "c", "r", "i", "p", "t", ">", "a", "l", "e", "r", "t",
          "(", "1", ")", "<", "/", "s", "c", "r", "i", "p", "t", ">", "h",
          "i">>)
M_emptyMarkup == Lit(<<"<", "b", ">", "<", "/", "b", ">">>)
M_image == Lit(<<"<", "i", "m", "g", " ", "s", "r", "c", "=", "x", ">">>)
M_nestedUri ==
    Lit(<<"j", "a", "v", "a", "<", "b", ">", "j", "a", "v", "a", "<", "i",
          ">", "s", "c", "r", "i", "p", "t", ":", "s", "c", "r", "i", "p",
          "t", ":">>)
M_handlerInUri ==
    Lit(<<"j", "a", "v", "a", "o", "<", "b", ">", "n", "x", "=", "s", "c",
          "r", "i", "p", "t", ":">>)
M_nestedHandler ==
    Lit(<<"o", "<", "b", ">", "o", "n", "<", "i", ">", "x", "=", "n", "x",
          "=">>)
M_splitUri ==
    Lit(<<"j", "a", "v", "a", "<", "b", ">", "s", "c", "r", "i", "p", "t",
          ":", "a", "l", "e", "r", "t", "(", "1", ")">>)
M_splitHandler ==
    Lit(<<"o", "<", "b", ">", "n", "c", "l", "i", "c", "k", " ", "=", "g",
          "o">>)
M_upperHandler ==
    Lit(<<"O", "N", "C", "L", "I", "C", "K", " ", "=", "g", "o">>)
M_upperUri ==
    Lit(<<"J", "a", "v", "a", "S", "c", "r", "i", "p", "t", ":", "g", "o">>)
M_loneLt == Lit(<<"a", " ", ">", " ", "b", " ", "<", " ", "c">>)
M_plain == Lit(<<"h", "e", "l", "l", "o", " ", "w", "o", "r", "l", "d">>)
M_imgHandler ==
    Lit(<<"<", "i", "m", "g", " ", "s", "r", "c", "=", "x", " ", "o", "n",
          "e", "r", "r", "o", "r", "=", "g", "o", ">">>)
M_blank == Lit(<<" ", "\n", "	", " ">>)

Corpus ==
    {M_markup, M_scriptBlock, M_emptyMarkup, M_image, M_nestedUri,
     M_handlerInUri, M_nestedHandler, M_splitUri, M_splitHandler,
     M_upperHandler, M_upperUri, M_loneLt, M_plain, M_imgHandler,
     M_blank,
     Filler(MAX_MESSAGE_LENGTH), Filler(MAX_MESSAGE_LENGTH + 1),
     F_space \o Filler(MAX_MESSAGE_LENGTH) \o Lit(<<"\n">>),
     F_space \o Filler(MAX_MESSAGE_LENGTH + 1),
     F_on \o Filler(MAX_MESSAGE_LENGTH - 3) \o F_eq}

KeyPrefixes == {<<>>, L_sk, Lit(<<"S", "K", "-">>), Lit(<<"p", "k", "-">>)}
KeyLengths == {0, 1, 3, 25, 39, 40, 51, 60, 61, 200, 201}
KeyPadding == {<<>>, F_space}
ApiKeys ==
    {pad \o pre \o Filler(n - Len(pre)) \o pad :
        pad \in KeyPadding, pre \in KeyPrefixes, n \in KeyLengths}

\* The argument under construction grows by one fragment.
TypeFragment(f) ==
    /\ valFrags < MaxFrags
    /\ valIn' = valIn \o f
    /\ valFrags' = valFrags + 1
    /\ valOp' = "input"
    /\ valRet' = Undefined
    /\ UNCHANGED <<vaultVars, throttleVars, chatVars, logVars, dialogVars>>

\* A whole text is pasted into the empty argument.
PasteText(m) ==
    /\ valIn = <<>>
    /\ valFrags = 0
    /\ valIn' = m
    /\ valFrags' = MaxFrags
    /\ valOp' = "input"
    /\ valRet' = Undefined
    /\ UNCHANGED <<vaultVars, throttleVars, chatVars, logVars, dialogVars>>

ClearInput ==
    /\ valIn' = <<>>
    /\ valFrags' = 0
    /\ valOp' = "input"
    /\ valRet' = Undefined
    /\ UNCHANGED <<vaultVars, throttleVars, chatVars, logVars, dialogVars>>

ValidateMessage ==
    /\ valOp' = "validateMessage"
    /\ valRet' = validateMessage(valIn)
    /\ UNCHANGED <<valIn, valFrags, vaultVars, throttleVars, chatVars, logVars,
                   dialogVars>>

ValidateApiKey ==
    /\ valOp' = "validateApiKey"
    /\ valRet' = validateApiKey(valIn)
    /\ UNCHANGED <<valIn, valFrags, vaultVars, throttleVars, chatVars, logVars,
                   dialogVars>>

InitValidator ==
    /\ valOp = "init"
    /\ valIn = <<>>
    /\ valFrags = 0
    /\ valRet = Undefined

NextValidator ==
    \/ \E f \in Fragments : TypeFragment(f)
    \/ \E m \in Corpus \cup ApiKeys : PasteText(m)
    \/ ClearInput
    \/ ValidateMessage
    \/ ValidateApiKey

(***************************************************************************)
(* Audit log (SecurityLogger).                                             *)
(***************************************************************************)
MAX_LOGS == 50

\* Variant that keeps the first MAX_LOGS entries.
logEvent_DropsNewest(lg, event, details, t) ==
    LET logEntry == [timestamp |-> t, event |-> event, details |-> details,
                     userAgent |-> "userAgent"]
        pushed == Append(lg, logEntry)
    IN  IF Len(pushed) > MAX_LOGS THEN SubSeq(pushed, 1, MAX_LOGS) ELSE pushed

\* logEvent: append the entry, keep the latest MAX_LOGS, write back.
logEvent(lg, event, details, t) ==
    LET logEntry == [timestamp |-> t, event |-> event, details |-> details,
                     userAgent |-> "userAgent"]
        pushed == Append(lg, logEntry)
    IN  IF Len(pushed) > MAX_LOGS
        THEN SubSeq(pushed, Len(pushed) - MAX_LOGS + 1, Len(pushed))
        ELSE pushed

\* What the log's localStorage item can hold: nothing or a JSON array (the
\* entries are then in logs), a string JSON.parse rejects, or JSON that is
\* not an array (null, {}, a number).
LogStatuses == {"array", "garbage", "notArray"}

\* How localStorage behaves during a call: it works, every access throws
\* (storage denied), or setItem throws (quota exceeded).
LogModes == {"none", "denied", "quota"}

\* getLogs: the parsed item, or [] when the item is missing, when getItem
\* throws or when JSON.parse throws.
getLogs(status, lg, mode) ==
    IF mode = "denied" \/ status = "garbage" THEN [isArray |-> TRUE, v |-> <<>>]
    ELSE IF status = "notArray" THEN [isArray |-> FALSE, v |-> <<>>]
    ELSE [isArray |-> TRUE, v |-> lg]

\* Body of logEvent's try block: push throws on a value that is not an
\* array, setItem throws when storage is denied or full.
logEventBody(status, lg, event, details, t, mode) ==
    LET got == getLogs(status, lg, mode)
    IN  IF ~got.isArray \/ mode # "none"
        THEN [kind |-> "throw", status |-> status, logs |-> lg]
        ELSE [kind |-> "return", status |-> "array",
              logs |-> logEvent(got.v, event, details, t)]

\* Variant without the catch clause.
logEventCall_NoCatch(status, lg, event, details, t, mode) ==
    logEventBody(status, lg, event, details, t, mode)

\* A call of SecurityLogger.logEvent: the catch clause swallows whatever
\* the body threw.
logEventCall(status, lg, event, details, t, mode) ==
    LET r == logEventBody(status, lg, event, details, t, mode)
    IN  IF r.kind = "throw" THEN [r EXCEPT !.kind = "return"] ELSE r

NoLogCall == [mode |-> "none", threw |-> FALSE]
CleanHistory(entries) == [calls |-> entries, clean |-> TRUE]

\* The entry logEvent builds
LogEntry(event, details, t) ==
    [timestamp |-> t, event |-> event, details |-> details,
     userAgent |-> "userAgent"]

\* Entries an earlier session left in the log, oldest first.
RECURSIVE EarlierLog(_)
EarlierLog(n) ==
    IF n = 0 THEN <<>>
    ELSE <<LogEntry("api_request_success", [model |-> "llama3-8b-8192"], 0 - n)>>
         \o EarlierLog(n - 1)

LoggedEvents == {"api_key_configured", "rate_limit_exceeded"}

\* Some handler calls SecurityLogger.logEvent(event, {success: true}).
LogEventCall(event, mode) ==
    /\ logged < MaxLogged
    /\ LET r == logEventCall(logStatus, logs, event, [success |-> TRUE], now, mode)
       IN  /\ logs' = r.logs
           /\ logStatus' = r.status
           /\ lCall' = [mode |-> mode, threw |-> r.kind = "throw"]
    /\ logged' = logged + 1
    /\ history' = [calls |-> Append(history.calls,
                                    LogEntry(event, [success |-> TRUE], now)),
                   clean |-> history.clean /\ mode = "none"]
    /\ UNCHANGED <<vaultVars, throttleVars, validatorVars, chatVars, dialogVars>>

\* Another script of the origin, or the user, overwrites the log's item.
ForeignLogWrite(status) ==
    /\ status # "array"
    /\ logStatus = "array"
    /\ logStatus' = status
    /\ logs' = <<>>
    /\ history' = [history EXCEPT !.clean = FALSE]
    /\ UNCHANGED <<logged, lCall, vaultVars, throttleVars, validatorVars,
                   chatVars, dialogVars>>

(***************************************************************************)
(* Chat pipeline (RecruitmentChat).                                        *)
(***************************************************************************)
NoCall == [t |-> "none"]
GreetingText == "Hello! I'm your AI recruitment specialist. Share a job description with me, and I'll provide you with the best strategies to get hired. What position are you interested in?"
NoKeyText == "Please configure your Groq API key to start getting personalized recruitment advice."
EmptyReplyText == "I apologize, but I couldn't generate a response. Please try again."
FallbackText == "I'm experiencing technical difficulties. Please try again in a moment."

NoSubmission == [t |-> "none"]

\* Texts the user types into the chat input (maxLength 4000).
ChatTexts == {M_plain, M_emptyMarkup, F_ignore, F_space}

\* Record of timestamps after MAX_REQUESTS_PER_MINUTE admissions at time 0.
FullWindow == [i \in 1..MAX_REQUESTS_PER_MINUTE |-> 0]

\* Math.ceil(a / b)
CeilDiv(a, b) == (a + b - 1) \div b

\* Submit button: disabled={isLoading || !input.trim() || !!rateLimitError}
SubmitEnabled ==
    /\ ~showApiKeyInput
    /\ ~isLoading
    /\ Trim(input) # <<>>
    /\ ~rateLimitError

\* const sanitizedContent = validation.sanitized || input.trim()
PromptOf(validation, inp) ==
    IF validation.sanitized.v # <<>> THEN validation.sanitized.v ELSE Trim(inp)

\* handleSubmit up to the point where the provider call is outstanding, or
\* to its end when it returns earlier.
\* handleSubmit once the key is present: the field is cleared, the loading
\* flag is raised and the provider call leaves with the prompt.
Sent_NotLoading(quiet, reqs, prompt) ==
    [quiet EXCEPT !.input = <<>>, !.requests = reqs, !.admitted = TRUE,
                  !.isLoading = FALSE, !.calls = 1,
                  !.pending = [t |-> "call", prompt |-> prompt]]
Sent(quiet, reqs, prompt) ==
    [quiet EXCEPT !.input = <<>>, !.requests = reqs, !.admitted = TRUE,
                  !.isLoading = TRUE, !.calls = 1,
                  !.pending = [t |-> "call", prompt |-> prompt]]

\* handleSubmit when validateMessage refuses the text: the refusal is
\* logged and the handler returns.
RejectedInput_TakesSlot(quiet, validation, inp, t) ==
    [quiet EXCEPT
        !.requests = canMakeRequest(quiet.requests, t).requests,
        !.logs = logEvent(quiet.logs, "input_validation_failed",
                          [reason |-> validation.message.v,
                           messageLength |-> StrLength(inp)], t)]
RejectedInput(quiet, validation, inp, t) ==
    [quiet EXCEPT
        !.logs = logEvent(quiet.logs, "input_validation_failed",
                          [reason |-> validation.message.v,
                           messageLength |-> StrLength(inp)], t)]

handleSubmit(inp, reqs, t, key, lg) ==
    LET validation == validateMessage(inp)
        adm == canMakeRequest(reqs, t)
        waitTime == CeilDiv(getTimeUntilNextRequest(adm.requests, t).ret, 1000)
        sanitizedContent == PromptOf(validation, inp)
        quiet == [input |-> inp, requests |-> reqs, logs |-> lg,
                  rateLimitError |-> FALSE, isLoading |-> FALSE,
                  pending |-> NoCall, admitted |-> FALSE, calls |-> 0,
                  reply |-> ""]
    IN  IF Trim(inp) = <<>> THEN quiet @@ [out |-> "blank"]
        ELSE IF ~validation.isValid
        THEN RejectedInput(quiet, validation, inp, t) @@ [out |-> "invalid"]
        ELSE IF ~adm.ret
        THEN [quiet EXCEPT
                !.requests = adm.requests,
                !.rateLimitError = TRUE,
                !.logs = logEvent(lg, "rate_limit_exceeded",
                                  [waitTime |-> waitTime], t)]
             @@ [out |-> "limited"]
        ELSE IF key = <<>>
        THEN [quiet EXCEPT
                !.input = <<>>,
                !.requests = adm.requests,
                !.admitted = TRUE,
                !.reply = NoKeyText,
                !.logs = logEvent(lg, "api_request_failed",
                                  [reason |-> "no_api_key"], t)]
             @@ [out |-> "nokey"]
        ELSE Sent(quiet, adm.requests, sanitizedContent) @@ [out |-> "sent"]

\* onChange of the input field
TypeInput(text) ==
    /\ ~showApiKeyInput
    /\ ~isLoading
    /\ input' = text
    /\ UNCHANGED <<isLoading, rateLimitError, showApiKeyInput, chatApiKey,
                   pending, inFlight, shown, chOp, chCall, logVars, vaultVars, throttleVars,
                   validatorVars, dialogVars>>

ChatSubmit ==
    /\ SubmitEnabled
    /\ logged < MaxLogged
    /\ LET r == handleSubmit(input, requests, now, chatApiKey, logs)
       IN  /\ input' = r.input
           /\ requests' = r.requests
           /\ logs' = r.logs
           /\ logged' = IF r.logs = logs THEN logged ELSE logged + 1
           /\ rateLimitError' = r.rateLimitError
           /\ isLoading' = r.isLoading
           /\ pending' = IF r.calls = 0 THEN pending ELSE r.pending
           /\ inFlight' = inFlight + r.calls
           /\ shown' = IF r.reply = "" THEN shown ELSE r.reply
           /\ chOp' = r.out
           /\ chCall' = [t |-> "submission", raw |-> input,
                         admitted |-> r.admitted, at |-> now]
    /\ UNCHANGED <<logStatus, history, lCall>>
    /\ UNCHANGED <<showApiKeyInput, chatApiKey, now, ticks, rOp, rRet, rPre,
                   admitted, burst, vaultVars, validatorVars, dialogVars>>

\* What the provider call can end in: generated text, a completion without
\* content, a rejected promise carrying an Error, or a thrown non-Error.
Replies ==
    { [kind |-> "text", detail |-> "advice"],
      [kind |-> "empty", detail |-> ""],
      [kind |-> "error", detail |-> "401 Invalid API Key"],
      [kind |-> "thrown", detail |-> ""] }

\* Variant whose catch clause returns the error's message as the reply.
generateRecruitmentResponse_ShowsDetail(reply, lg, t) ==
    CASE reply.kind = "text" ->
           [text |-> reply.detail,
            logs |-> logEvent(lg, "api_request_success",
                              [model |-> "llama3-8b-8192"], t)]
      [] reply.kind = "empty" ->
           [text |-> EmptyReplyText,
            logs |-> logEvent(lg, "api_response_empty", [success |-> FALSE], t)]
      [] OTHER ->
           [text |-> IF reply.kind = "error" THEN reply.detail ELSE "unknown",
            logs |-> logEvent(lg, "api_request_error",
                              [error |-> IF reply.kind = "error"
                                         THEN reply.detail ELSE "unknown",
                               hasApiKey |-> TRUE], t)]

\* generateRecruitmentResponse from the point where the provider call
\* settles: the text it returns and the entry it logs.
generateRecruitmentResponse(reply, lg, t) ==
    CASE reply.kind = "text" ->
           [text |-> reply.detail,
            logs |-> logEvent(lg, "api_request_success",
                              [model |-> "llama3-8b-8192"], t)]
      [] reply.kind = "empty" ->
           [text |-> EmptyReplyText,
            logs |-> logEvent(lg, "api_response_empty", [success |-> FALSE], t)]
      [] OTHER ->
           [text |-> FallbackText,
            logs |-> logEvent(lg, "api_request_error",
                              [error |-> IF reply.kind = "error"
                                         THEN reply.detail ELSE "unknown",
                               hasApiKey |-> TRUE], t)]

\* The provider call settles; handleSubmit appends the returned text as the
\* assistant's message and lowers the loading flag.
ProviderReply(reply) ==
    /\ pending.t = "call"
    /\ logged < MaxLogged
    /\ LET r == generateRecruitmentResponse(reply, logs, now)
       IN  /\ logs' = r.logs
           /\ shown' = r.text
    /\ logged' = logged + 1
    /\ inFlight' = inFlight - 1
    /\ pending' = IF inFlight = 1 THEN NoCall ELSE pending
    /\ isLoading' = FALSE
    /\ chOp' = CASE reply.kind = "text" -> "reply_ok"
                 [] reply.kind = "empty" -> "reply_empty"
                 [] OTHER -> "reply_error"
    /\ UNCHANGED <<logStatus, history, lCall>>
    /\ UNCHANGED <<input, rateLimitError, showApiKeyInput, chatApiKey, chCall,
                   vaultVars, throttleVars, validatorVars, dialogVars>>

\* onClose={() => setShowApiKeyInput(false)}
CloseDialog ==
    /\ showApiKeyInput
    /\ showApiKeyInput' = FALSE
    /\ UNCHANGED <<input, isLoading, rateLimitError, chatApiKey, pending,
                   inFlight, shown, chOp, chCall, logVars, vaultVars, throttleVars, validatorVars, dialogVars>>

\* handleApiKeyConfigured: the entry it logs
handleApiKeyConfigured(lg, t) ==
    logEvent(lg, "api_key_configured", [success |-> TRUE], t)

\* handleApiKeyConfigured, called back by the dialog with the key
ApiKeyConfigured(key) ==
    /\ showApiKeyInput
    /\ logged < MaxLogged
    /\ chatApiKey' = key
    /\ showApiKeyInput' = FALSE
    /\ logs' = handleApiKeyConfigured(logs, now)
    /\ UNCHANGED <<logStatus, history, lCall>>
    /\ logged' = logged + 1
    /\ chOp' = "configured"
    /\ UNCHANGED <<input, isLoading, rateLimitError, pending, inFlight, shown, chCall,
                   vaultVars, throttleVars, validatorVars, dialogVars>>

\* Date.now() moves past a whole window between two handlers.
WindowElapses ==
    /\ ticks < MaxWindows
    /\ now' = now + WINDOW_SIZE
    /\ ticks' = ticks + 1
    /\ UNCHANGED <<requests, rOp, rRet, rPre, admitted, burst, vaultVars,
                   validatorVars, chatVars, logVars, dialogVars>>

(***************************************************************************)
(* Key dialog (SecureApiKeyDialog).  Its text fields are inputs of the     *)
(* handlers; a handler runs to completion, awaited calls included.         *)
(***************************************************************************)
\* UTF-16 code unit of a character of the key alphabet.
CodeOf(c) ==
    IF \E i \in DOMAIN LowerCase : LowerCase[i] = c
    THEN 96 + (CHOOSE i \in DOMAIN LowerCase : LowerCase[i] = c)
    ELSE CASE c = "-" -> 45
           [] c = " " -> 32

\* The code units of a text given as runs.
RECURSIVE Units(_)
Units(s) ==
    IF s = <<>> THEN <<>>
    ELSE [i \in 1..s[1].n |-> CodeOf(s[1].c)] \o Units(Tail(s))

\* !passphrase.trim()
IsBlank(units) == \A i \in 1..Len(units) : units[i] \in {32, 10, 9}

\* Keys typed into the dialog: well-formed, of length 25, with a foreign
\* prefix.
DialogKeys ==
    {L_sk \o Filler(48), L_sk \o Filler(22), Lit(<<"p", "k", "-">>) \o Filler(48)}

\* Passphrases typed into the dialog: of 7 and of 8 characters.
DialogPassphrases ==
    {[i \in 1..7 |-> 112], [i \in 1..8 |-> 112], [i \in 1..8 |-> 113]}

\* Storage left by an earlier session that stored a key under a passphrase.
EarlierKey == Units(L_sk \o Filler(48))
EarlierPassphrase == [i \in 1..8 |-> 112]
EarlierStorage ==
    storeApiKey([k \in {SALT_KEY, API_KEY} |-> Null], EarlierKey,
                EarlierPassphrase, 1, 1, TRUE).st

\* The key the chat holds once one was configured.
ConfiguredKey == EarlierKey

\* One handler run: what it left in storage and in the log, the error it
\* set, the key it handed to onApiKeyConfigured (if any), and how it ended.
Ended(out, st, lg, error, key) ==
    [out |-> out, st |-> st, logs |-> lg, error |-> error, key |-> key]

\* handleSubmit with 'encrypt and store' off: the key goes to the chat only.
MemoryOnly_StoresKey(st, lg, t, key) ==
    Ended("configured_memory_only", [st EXCEPT ![API_KEY] = Str(key)],
          handleApiKeyConfigured(
              logEvent(lg, "api_key_configured_memory_only",
                       [success |-> TRUE], t), t),
          "", key)
MemoryOnly(st, lg, t, key) ==
    Ended("configured_memory_only", st,
          handleApiKeyConfigured(
              logEvent(lg, "api_key_configured_memory_only",
                       [success |-> TRUE], t), t),
          "", key)

\* SecureApiKeyDialog.handleSubmit
dialogSubmit(st, lg, t, keyText, passphrase, confirmPassphrase, useEnc, isValidKey, rndSalt, rndIv, avail) ==
    LET keyValidation == validateApiKey(keyText)
        key == Units(Trim(keyText))
        stored_ == storeApiKey(st, key, passphrase, rndSalt, rndIv, avail)
    IN  IF ~keyValidation.isValid
        THEN Ended("key_invalid", st, lg, keyValidation.message.v, <<>>)
        ELSE IF useEnc /\ IsBlank(passphrase)
        THEN Ended("passphrase_invalid", st, lg,
                   "Please enter a passphrase for encryption", <<>>)
        ELSE IF useEnc /\ Len(passphrase) < 8
        THEN Ended("passphrase_invalid", st, lg,
                   "Passphrase must be at least 8 characters long", <<>>)
        ELSE IF useEnc /\ passphrase # confirmPassphrase
        THEN Ended("passphrase_invalid", st, lg, "Passphrases do not match",
                   <<>>)
        ELSE IF ~isValidKey
        THEN Ended("provider_rejected", st,
                   logEvent(lg, "api_key_validation_failed",
                            [reason |-> "groq_rejected"], t),
                   "API key is invalid or has insufficient permissions", <<>>)
        ELSE IF ~useEnc
        THEN MemoryOnly(st, lg, t, key)
        ELSE IF stored_.kind = "throw"
        THEN Ended("configuration_failed", stored_.st,
                   logEvent(lg, "api_key_configuration_failed",
                            [reason |-> "unknown_error"], t),
                   "Failed to configure API key", <<>>)
        ELSE Ended("stored_encrypted", stored_.st,
                   handleApiKeyConfigured(
                       logEvent(lg, "api_key_stored_encrypted",
                                [success |-> TRUE], t), t),
                   "", key)

\* SecureApiKeyDialog.handleUnlockStoredKey
dialogUnlock(st, lg, t, passphrase, rndSalt, avail) ==
    LET r == retrieveApiKey(st, passphrase, rndSalt, avail)
    IN  IF IsBlank(passphrase)
        THEN Ended("passphrase_missing", st, lg,
                   "Please enter your passphrase", <<>>)
        ELSE IF r.kind = "throw"
        THEN Ended("unlock_failed", r.st,
                   logEvent(lg, "api_key_unlock_failed",
                            [reason |-> "encryption_error"], t),
                   "Failed to unlock API key", <<>>)
        ELSE IF r.val.t = "str" /\ r.val.v # <<>>
        THEN Ended("unlocked", r.st,
                   handleApiKeyConfigured(
                       logEvent(lg, "api_key_unlocked", [success |-> TRUE], t),
                       t),
                   "", r.val.v)
        ELSE Ended("unlock_failed", r.st,
                   logEvent(lg, "api_key_unlock_failed",
                            [reason |-> "invalid_passphrase"], t),
                   "Invalid passphrase or corrupted data", <<>>)

\* The effect of a handler run on the dialog, the chat and the log.
DialogEnds(r) ==
    /\ storage' = r.st
    /\ logs' = r.logs
    /\ logged' = logged + (Len(r.logs) - Len(logs))
    /\ UNCHANGED <<logStatus, history, lCall>>
    /\ dlgError' = r.error
    /\ dOp' = r.out
    /\ dLogged' = (r.logs # logs)
    /\ chatApiKey' = IF r.key # <<>> THEN r.key ELSE chatApiKey
    /\ showApiKeyInput' = (r.key = <<>>)

\* Configure button: disabled={isLoading || !apiKey.trim() ||
\* (useEncryption && (!passphrase.trim() || passphrase !== confirmPassphrase))}
DialogSubmit(keyText, passphrase, confirmPassphrase, isValidKey, rndSalt, rndIv) ==
    /\ showApiKeyInput
    /\ ~isUnlocking
    /\ Trim(keyText) # <<>>
    /\ useEncryption => (~IsBlank(passphrase) /\ passphrase = confirmPassphrase)
    /\ logged + 2 <= MaxLogged
    /\ DialogEnds(dialogSubmit(storage, logs, now, keyText, passphrase,
                               confirmPassphrase, useEncryption, isValidKey,
                               rndSalt, rndIv, cryptoAvail))
    /\ UNCHANGED <<cryptoAvail, storing, vOp, vRel, vRet, vThrew, vNote, stored,
                   isUnlocking, useEncryption, input, isLoading,
                   rateLimitError, pending, inFlight, shown, chOp, chCall, throttleVars,
                   validatorVars>>

\* Unlock button: disabled={isLoading || !passphrase.trim()}
DialogUnlock(passphrase, rndSalt) ==
    /\ showApiKeyInput
    /\ isUnlocking
    /\ ~IsBlank(passphrase)
    /\ logged + 2 <= MaxLogged
    /\ DialogEnds(dialogUnlock(storage, logs, now, passphrase, rndSalt,
                               cryptoAvail))
    /\ UNCHANGED <<cryptoAvail, storing, vOp, vRel, vRet, vThrew, vNote, stored,
                   isUnlocking, useEncryption, input, isLoading,
                   rateLimitError, pending, inFlight, shown, chOp, chCall, throttleVars,
                   validatorVars>>

\* SecureApiKeyDialog.handleClearStoredData; the statements after logEvent
\* run only if logEvent returns.
DialogClear(mode) ==
    /\ showApiKeyInput
    /\ isUnlocking
    /\ logged < MaxLogged
    /\ storage' = clearStoredCredentials(storage)
    /\ LET r == logEventCall(logStatus, logs, "stored_credentials_cleared",
                             [success |-> TRUE], now, mode)
       IN  /\ logs' = r.logs
           /\ logStatus' = r.status
           /\ lCall' = [mode |-> mode, threw |-> r.kind = "throw"]
           /\ isUnlocking' = IF r.kind = "throw" THEN isUnlocking ELSE FALSE
           /\ useEncryption' = IF r.kind = "throw" THEN useEncryption ELSE FALSE
           /\ dOp' = IF r.kind = "throw" THEN "clear_threw" ELSE "cleared"
    /\ logged' = logged + 1
    /\ history' = [calls |-> Append(history.calls,
                                    LogEntry("stored_credentials_cleared",
                                             [success |-> TRUE], now)),
                   clean |-> history.clean /\ mode = "none"]
    /\ dlgError' = ""
    /\ dLogged' = TRUE
    /\ UNCHANGED <<cryptoAvail, storing, vOp, vRel, vRet, vThrew, vNote, stored,
                   chatVars, throttleVars, validatorVars>>

\* The "encrypt and store" checkbox
ToggleEncryption ==
    /\ showApiKeyInput
    /\ ~isUnlocking
    /\ useEncryption' = ~useEncryption
    /\ UNCHANGED <<isUnlocking, dlgError, dOp, dLogged, vaultVars, chatVars,
                   logVars, throttleVars, validatorVars>>

\* The dialog mounts: useState(SecureStorage.hasStoredApiKey())
DialogMounts ==
    /\ ~showApiKeyInput
    /\ showApiKeyInput' = TRUE
    /\ isUnlocking' = hasStoredApiKey(storage)
    /\ useEncryption' = hasStoredApiKey(storage)
    /\ dlgError' = ""
    /\ UNCHANGED <<dOp, dLogged, input, isLoading, rateLimitError, chatApiKey,
                   pending, inFlight, shown, chOp, chCall, logVars, vaultVars, throttleVars,
                   validatorVars>>

InitDialog ==
    /\ isUnlocking = FALSE
    /\ useEncryption = FALSE
    /\ dlgError = ""
    /\ dOp = "init"
    /\ dLogged = FALSE

NextDialog ==
    \/ \E keyText \in DialogKeys, passphrase, confirmPassphrase \in DialogPassphrases,
          isValidKey \in BOOLEAN, rndSalt \in RandomSalts, rndIv \in IVs :
          DialogSubmit(keyText, passphrase, confirmPassphrase, isValidKey,
                       rndSalt, rndIv)
    \/ \E passphrase \in DialogPassphrases, rndSalt \in RandomSalts :
          DialogUnlock(passphrase, rndSalt)
    \/ \E mode \in LogModes : DialogClear(mode)
    \/ ToggleEncryption
    \/ DialogMounts
    \/ CloseDialog

InitChatState ==
    /\ input = <<>>
    /\ isLoading = FALSE
    /\ rateLimitError = FALSE
    /\ chatApiKey = <<>>
    /\ showApiKeyInput = TRUE
    /\ pending = NoCall
    /\ inFlight = 0
    /\ shown = GreetingText
    /\ chOp = "init"
    /\ chCall = NoSubmission

\* localStorage holds no log yet.
InitLog ==
    /\ logs = <<>>
    /\ logged = 0
    /\ logStatus = "array"
    /\ history = CleanHistory(<<>>)
    /\ lCall = NoLogCall

InitChat == InitChatState /\ InitLog

NextChat ==
    \/ \E text \in ChatTexts : TypeInput(text)
    \/ ChatSubmit
    \/ \E reply \in Replies : ProviderReply(reply)
    \/ DialogMounts
    \/ CloseDialog
    \/ ApiKeyConfigured(ConfiguredKey)
    \/ WindowElapses

Init ==
    InitVault /\ InitThrottle /\ InitValidator /\ InitChat /\ InitDialog

\* The vault alone, and the throttle alone (in a context where crypto works).
SpecVault == Init /\ [][NextVault]_vars
InitThrottleAlone == Init /\ cryptoAvail = TRUE
SpecThrottle == InitThrottleAlone /\ [][NextThrottle]_vars
InitValidatorAlone == Init /\ cryptoAvail = TRUE
SpecValidator == InitValidatorAlone /\ [][NextValidator]_vars

\* The chat component, mounted without or with a key, while the throttle's
\* record is empty or holds a full window of admissions.
InitChatAlone ==
    /\ InitVault /\ cryptoAvail = TRUE
    /\ InitValidator
    /\ now = 0 /\ ticks = 0
    /\ requests \in {<<>>, FullWindow}
    /\ rOp = "init" /\ rRet = Null /\ rPre = <<>>
    /\ admitted = <<>> /\ burst = NoBurst
    /\ input = <<>> /\ isLoading = FALSE /\ rateLimitError = FALSE
    /\ chatApiKey \in {<<>>, ConfiguredKey}
    /\ showApiKeyInput = (chatApiKey = <<>>)
    /\ pending = NoCall /\ inFlight = 0 /\ shown = GreetingText
    /\ chOp = "init"
    /\ chCall = NoSubmission
    /\ logs = <<>> /\ logged = 0
    /\ logStatus = "array" /\ history = CleanHistory(<<>>) /\ lCall = NoLogCall
    /\ InitDialog
SpecChat == InitChatAlone /\ [][NextChat]_vars

\* The key dialog, mounted over storage that is empty or was left by an
\* earlier session, in a context with or without crypto.subtle.
InitDialogAlone ==
    /\ storage \in {[k \in {SALT_KEY, API_KEY} |-> Null], EarlierStorage}
    /\ cryptoAvail \in BOOLEAN
    /\ vOp = "init" /\ vRel = "none" /\ vRet = Null /\ vThrew = FALSE
    /\ vNote = "none" /\ stored = NoStore /\ storing = NotStoring
    /\ InitThrottle /\ InitValidator /\ InitChat
    /\ isUnlocking = hasStoredApiKey(storage)
    /\ useEncryption = hasStoredApiKey(storage)
    /\ dlgError = "" /\ dOp = "init" /\ dLogged = FALSE
SpecDialog == InitDialogAlone /\ [][NextDialog]_vars

\* storeApiKey running step by step while clearStoredCredentials and
\* retrieveApiKey are called from other handlers.
NextInterleaved ==
    \/ \E S \in PlainSecrets, P \in Passphrases, s \in RandomSalts :
          StoreBegins(S, P, s)
    \/ \E i \in IVs : StoreResumes(i)
    \/ StoreCompletes
    \/ ClearStored
    \/ \E P \in Passphrases, s \in RandomSalts : RetrieveSecret(P, s)
InitInterleavedAlone == Init /\ cryptoAvail = TRUE
SpecInterleaved == InitInterleavedAlone /\ [][NextInterleaved]_vars

\* The vault used only through its own methods, one call at a time: nothing
\* else writes its two entries.
NextVaultCalls ==
    \/ \E S \in Secrets, P \in Passphrases, s \in RandomSalts, i \in IVs :
           StoreSecret(S, P, s, i)
    \/ \E P \in Passphrases, s \in RandomSalts : RetrieveSecret(P, s)
    \/ ClearStored
    \/ HasStored
InitVaultCallsAlone == Init /\ cryptoAvail \in BOOLEAN
SpecVaultCalls == InitVaultCallsAlone /\ [][NextVaultCalls]_vars

\* The logger, called directly and from the dialog's clear handler, over a
\* log that is empty or was filled by earlier sessions up to the cap, while
\* the clock advances and the log's item can be overwritten from outside.
NextLogger ==
    \/ \E event \in LoggedEvents, mode \in LogModes : LogEventCall(event, mode)
    \/ \E status \in LogStatuses \ {"array"} : ForeignLogWrite(status)
    \/ \E mode \in LogModes : DialogClear(mode)
    \/ Tick(1)

InitLoggerAlone ==
    /\ storage = EarlierStorage
    /\ cryptoAvail = TRUE
    /\ vOp = "init" /\ vRel = "none" /\ vRet = Null /\ vThrew = FALSE
    /\ vNote = "none" /\ stored = NoStore /\ storing = NotStoring
    /\ InitThrottle /\ InitValidator /\ InitChatState
    /\ logs \in {<<>>, EarlierLog(MAX_LOGS - 1), EarlierLog(MAX_LOGS)}
    /\ logged = 0
    /\ logStatus = "array"
    /\ history = CleanHistory(logs)
    /\ lCall = NoLogCall
    /\ isUnlocking = TRUE
    /\ useEncryption = TRUE
    /\ dlgError = "" /\ dOp = "init" /\ dLogged = FALSE
SpecLogger == InitLoggerAlone /\ [][NextLogger]_vars

(***************************************************************************)
(* Properties of the credential vault.                                     *)
(***************************************************************************)

\* C1: a completed storeSecret(S, P) followed by retrieveSecret(P), with no
\* clear, no other store and no foreign write in between, returns exactly S.
C1_RoundTrip ==
    (vOp = "retrieve" /\ vRel = "same")
        => vRet = Str(stored.S)

\* C2: retrieveSecret(P2) after storeSecret(S, P1) with P1 # P2 returns null,
\* never S, and does not throw.
C2_WrongKey ==
    (vOp = "retrieve" /\ vRel = "other")
        => (vRet = Null /\ ~vThrew)

C4_ClearIdempotent ==
    LET once == clearStoredCredentials(storage)
    IN  /\ once[API_KEY] = Null
        /\ once[SALT_KEY] = Null
        /\ ~hasStoredApiKey(once)
        /\ clearStoredCredentials(once) = once
        /\ vOp = "clear" => (~vThrew /\ storage = once)

C4_Witness ==
    /\ vOp = "clear"
    /\ vNote = "again"
    /\ storage = [k \in {SALT_KEY, API_KEY} |-> Null]

(***************************************************************************)
(* Properties of the request throttle.                                     *)
(***************************************************************************)

\* C5: starting from an empty admission record, the first 10 canAdmit() calls
\* made at one instant return true, the 11th returns false, and the next call
\* made once 60 seconds have passed since those admissions returns true.
C5_ThrottleBound ==
    /\ \A i \in DOMAIN burst.res :
           /\ i <= MAX_REQUESTS_PER_MINUTE => burst.res[i]
           /\ i = MAX_REQUESTS_PER_MINUTE + 1 => ~burst.res[i]
    /\ burst.after # "rejected"

C5_Witness ==
    /\ Len(burst.res) = MAX_REQUESTS_PER_MINUTE + 1
    /\ burst.after = "admitted"
    /\ now - burst.t = WINDOW_SIZE

\* C6: at every instant t, at most 10 admitted calls have their admission
\* time in the trailing slice (t - 60000, t].  The count is largest at an
\* admission time, so t ranges over the admission times and the present.
C6_SlidingWindow ==
    \A t \in {admitted[i] : i \in DOMAIN admitted} \cup {now} :
        Cardinality({i \in DOMAIN admitted :
                        t - WINDOW_SIZE < admitted[i] /\ admitted[i] <= t})
            <= MAX_REQUESTS_PER_MINUTE

C6_Witness ==
    /\ Len(admitted) = MAX_REQUESTS_PER_MINUTE + 1
    /\ admitted[Len(admitted)] - admitted[1] = WINDOW_SIZE
    /\ admitted[2] # admitted[1]
    /\ rOp = "canAdmit"

\* C7: a canAdmit() call that returns true adds exactly one entry, the current
\* time, to the record; a call that returns false adds none; so after a call
\* the record is exactly the admission times of the current window.
C7_CountsExactly ==
    rOp = "canAdmit" =>
        LET carried == Cardinality({i \in DOMAIN rPre : now - rPre[i] < WINDOW_SIZE})
            added == Len(requests) - carried
        IN  /\ rRet.v => (added = 1 /\ requests[Len(requests)] = now)
            /\ ~rRet.v => added = 0
            /\ requests = SelectSeq(admitted, LAMBDA a : now - a < WINDOW_SIZE)

C7_Witness ==
    /\ rOp = "canAdmit"
    /\ rRet.v
    /\ Len(requests) = MAX_REQUESTS_PER_MINUTE
    /\ requests[1] = now

\* C8 as stated: canAdmit() keeps every recorded timestamp of age at most
\* 60000 ms, a timestamp of age exactly 60000 ms included, and counts it
\* towards the cap.
C8_KeepsAgeOfWindow ==
    rOp = "canAdmit" =>
        LET kept == SelectSeq(rPre, LAMBDA ts : now - ts <= WINDOW_SIZE)
        IN  /\ rRet.v = (Len(kept) < MAX_REQUESTS_PER_MINUTE)
            /\ requests = IF rRet.v THEN Append(kept, now) ELSE kept

\* C8 amended: canAdmit() prunes exactly the recorded timestamps of age
\* 60000 ms or more; only timestamps of age below 60000 ms are kept and
\* counted towards the cap.
C8_PrunesAgeOfWindow ==
    rOp = "canAdmit" =>
        LET kept == SelectSeq(rPre, LAMBDA ts : now - ts < WINDOW_SIZE)
        IN  /\ rRet.v = (Len(kept) < MAX_REQUESTS_PER_MINUTE)
            /\ requests = IF rRet.v THEN Append(kept, now) ELSE kept

C8_Witness ==
    /\ rOp = "canAdmit"
    /\ rRet.v
    /\ Len(rPre) = MAX_REQUESTS_PER_MINUTE
    /\ now - rPre[1] = WINDOW_SIZE
    /\ now - rPre[2] = WINDOW_SIZE - 1
    /\ requests = Append(Tail(rPre), now)

\* C9: timeUntilNextSlot() leaves the admission record as it found it.
C9_TimeUntilReadOnly ==
    rOp = "timeUntil" => requests = rPre

C9_Witness ==
    /\ rOp = "timeUntil"
    /\ requests # <<>>
    /\ now - requests[1] > WINDOW_SIZE

\* C10: timeUntilNextSlot() returns 0 on an empty record, otherwise the time
\* left until the oldest recorded timestamp leaves the window, never below 0
\* and never above 60000 ms.
C10_TimeUntilValue ==
    rOp = "timeUntil" =>
        LET left == IF rPre = <<>> THEN 0 ELSE WINDOW_SIZE - (now - rPre[1])
        IN  /\ rRet.v = IF left < 0 THEN 0 ELSE left
            /\ rRet.v >= 0
            /\ rRet.v <= WINDOW_SIZE

C10_Witness ==
    /\ rOp = "timeUntil"
    /\ rPre # <<>>
    /\ rRet.v = 1
    /\ now - rPre[1] = WINDOW_SIZE - 1

(***************************************************************************)
(* Properties of the salt record.                                          *)
(***************************************************************************)

\* C16: once a salt is persisted, a storeSecret, retrieveSecret or
\* hasStoredSecret call leaves its value as it is; among the vault's
\* operations only clearStoredCredentials removes it.
C16_SaltStable ==
    [][(storage[SALT_KEY].t = "bytes" /\ vOp' \in {"store", "retrieve", "has"})
           => storage'[SALT_KEY] = storage[SALT_KEY]]_vars

C16_Witness ==
    /\ vOp = "retrieve"
    /\ vRel = "same"
    /\ vRet.t = "str"
    /\ storage[SALT_KEY].t = "bytes"
    /\ storage[API_KEY].data.key.salt = storage[SALT_KEY].v

\* C17: after storeSecret(S1, P1) directly followed by storeSecret(S2, P2),
\* one package is stored, retrieveSecret(P2) returns S2, and for P1 # P2
\* retrieveSecret(P1) returns absent.
C17_Overwrite ==
    [][(/\ vOp = "store" /\ ~vThrew /\ stored.t = "some"
        /\ vOp' = "store" /\ ~vThrew')
           => /\ storage'[API_KEY].t = "pkg"
              /\ retrieveApiKey(storage', stored'.P, 1, cryptoAvail).val
                     = Str(stored'.S)
              /\ (stored.P # stored'.P
                     => retrieveApiKey(storage', stored.P, 1, cryptoAvail).val
                            = Null)]_vars

\* C18: a storeSecret call that throws leaves localStorage exactly as it was
\* before the call: no salt is persisted and the package is untouched.
C18_FailedStoreNoTrace ==
    [][(vOp' = "store" /\ vThrew') => storage' = storage]_vars

(***************************************************************************)
(* Properties of the input governor.                                       *)
(***************************************************************************)
TrimmedIn == Trim(valIn)
MatchesPattern(s) == \E pat \in suspiciousPatterns : Test(pat, s)
TooLongText == "Message too long. Maximum 4000 characters allowed."

\* C11: for a message matching no injection pattern, validateMessage
\* answers valid exactly when the trimmed length is in 1..4000; above
\* 4000 the reason is the length one, and a whitespace-only message is
\* invalid.
C11_Boundary ==
    (valOp = "validateMessage" /\ ~MatchesPattern(TrimmedIn))
        => LET n == StrLength(TrimmedIn)
           IN  /\ valRet.isValid <=> (1 <= n /\ n <= MAX_MESSAGE_LENGTH)
               /\ (n > MAX_MESSAGE_LENGTH => valRet.message = Str(TooLongText))
               /\ (valIn # <<>> /\ n = 0 => ~valRet.isValid)

\* a text longer than 4000 whose trimmed length is exactly 4000 is accepted
C11_Witness ==
    /\ valOp = "validateMessage"
    /\ StrLength(valIn) > MAX_MESSAGE_LENGTH
    /\ StrLength(TrimmedIn) = MAX_MESSAGE_LENGTH
    /\ valRet.isValid

\* C12: a message whose trimmed raw text matches one of the injection
\* patterns is returned invalid, with a reason and without a sanitized
\* string, also when sanitizing it would have removed the match.
C12_RejectBeforeSanitize ==
    (valOp = "validateMessage" /\ MatchesPattern(TrimmedIn))
        => /\ ~valRet.isValid
           /\ valRet.message.t = "str"
           /\ valRet.sanitized = Undefined

\* a script block that sanitization would have deleted whole is rejected
C12_Witness ==
    /\ valOp = "validateMessage"
    /\ Test("scriptOpen", TrimmedIn)
    /\ StrLength(Sanitize(TrimmedIn)) > 0
    /\ ~MatchesPattern(Sanitize(TrimmedIn))
    /\ ~valRet.isValid
    /\ valRet.sanitized = Undefined

\* The run at position p lies inside an angle-bracket tag: a "<" at or
\* before p with no ">" in between, and a ">" at or after p.
InTag(s, p) ==
    /\ \E i \in 1..p : s[i].c = "<" /\ \A q \in i..(p - 1) : s[q].c # ">"
    /\ \E j \in p..Len(s) : s[j].c = ">"

RECURSIVE OutsideFrom(_, _)
OutsideFrom(s, p) ==
    IF p > Len(s) THEN <<>>
    ELSE (IF InTag(s, p) THEN <<>> ELSE <<s[p]>>) \o OutsideFrom(s, p + 1)

\* The text outside the tags, in its original order.
OutsideTags(s) == OutsideFrom(s, 1)

HasTag(s) ==
    \E i \in 1..Len(s) : s[i].c = "<" /\ \E j \in (i + 1)..Len(s) : s[j].c = ">"

Contains(s, lit) == \E i \in 1..Len(s) : HasLit(s, lit, i)

\* a is b with some runs deleted
RECURSIVE IsSubseq(_, _)
IsSubseq(a, b) ==
    IF a = <<>> THEN TRUE
    ELSE IF b = <<>> THEN FALSE
    ELSE IF a[1] = b[1] THEN IsSubseq(Tail(a), Tail(b))
    ELSE IsSubseq(a, Tail(b))

Accepted == valOp = "validateMessage" /\ valRet.isValid
Sanitized == valRet.sanitized.v

\* C13 as stated: the sanitized string of an accepted message holds no
\* "<script>", no "<" followed later by ">", and is the text outside the
\* tags.
C13_OutsideTextKept ==
    Accepted
        => /\ ~Contains(Fold(Sanitized), L_scriptOpen \o Lit(<<">">>))
           /\ ~HasTag(Sanitized)
           /\ Sanitized = OutsideTags(TrimmedIn)

\* C13, amended: the sanitized string of an accepted message holds no
\* "<script>" and no "<" followed later by ">"; it is the text outside the
\* tags with runs deleted but none added or reordered, and it is exactly
\* that text when that text holds no "javascript:" and no handler pattern.
C13_MarkupRemoved ==
    Accepted
        => /\ ~Contains(Fold(Sanitized), L_scriptOpen \o Lit(<<">">>))
           /\ ~HasTag(Sanitized)
           /\ IsSubseq(Sanitized, OutsideTags(TrimmedIn))
           /\ (/\ ~Test("javascriptUri", OutsideTags(TrimmedIn))
               /\ ~Test("onHandler", OutsideTags(TrimmedIn)))
                  => Sanitized = OutsideTags(TrimmedIn)

\* markup was removed and text on both sides of it was kept
C13_Witness ==
    /\ Accepted
    /\ HasTag(TrimmedIn)
    /\ StrLength(Sanitized) > 0
    /\ Sanitized = OutsideTags(TrimmedIn)
    /\ ~InTag(TrimmedIn, 1)
    /\ ~InTag(TrimmedIn, Len(TrimmedIn))

\* C14: the sanitized string of an accepted message holds no "javascript:"
\* (in any letter case) and no handler pattern, also when one forms only
\* after the removal of tags or of an earlier occurrence.
C14_NoUriNoHandler ==
    Accepted
        => /\ ~Test("javascriptUri", Sanitized)
           /\ ~Test("onHandler", Sanitized)

C19_SanitizedPromptOnly ==
    pending.t = "call"
        => LET validation == validateMessage(chCall.raw)
           IN  /\ validation.isValid
               /\ chCall.admitted
               /\ pending.prompt = validation.sanitized.v

\* C20: every security-relevant outcome appends an entry to the audit log:
\* a failed validation of a credential, a failed unlock and a successful
\* credential configuration each leave a log entry.
C20_EveryOutcomeLogged ==
    dOp \in {"key_invalid", "provider_rejected", "unlock_failed",
             "configured_memory_only", "stored_encrypted", "unlocked"}
        => dLogged


\* C21: at most one provider call is in flight; while it is outstanding the
\* chat form accepts no submission; when it settles, whatever the outcome, the
\* loading flag is lowered and nothing else keeps the form disabled.
C21_OneCallInFlight ==
    [][/\ inFlight' <= 1
       /\ (inFlight > 0 => ~SubmitEnabled /\ isLoading)
       /\ (inFlight > 0 /\ inFlight' = 0 =>
              ~isLoading' /\ ~rateLimitError' /\ pending' = NoCall)]_vars
C21_Witness ==
    chOp \in {"reply_ok", "reply_error"} /\ inFlight = 0 /\ ~isLoading

\* C29: a submission that is blank after trimming, or that validateMessage
\* refuses, returns before canMakeRequest: the admission record is the same
\* afterwards, and so is the answer canMakeRequest would give.
C29_RejectedCostsNoSlot ==
    [][/\ LET r == handleSubmit(F_space, requests, now, chatApiKey, logs)
          IN  r.out = "blank" /\ r.requests = requests
       /\ (chOp' \in {"blank", "invalid"} =>
              /\ requests' = requests
              /\ canMakeRequest(requests', now') = canMakeRequest(requests, now'))]_vars
C29_Witness ==
    /\ chOp = "invalid"
    /\ requests # <<>>

\* C27: after the throttle has refused a submission, once the window has
\* elapsed (canMakeRequest would admit again) the user can submit the text
\* still in the field from the same chat instance.
C27_RecoversAfterWindow ==
    /\ chOp = "limited"
    /\ canMakeRequest(requests, now).ret
    /\ ~showApiKeyInput
    /\ Trim(input) # <<>>
    => SubmitEnabled

\* C30: whenever canMakeRequest refuses, getTimeUntilNextRequest at the same
\* instant reports d with 0 < d <= WINDOW_SIZE, and the next canMakeRequest
\* made d ms or more later admits; so does one made after the whole seconds
\* the chat displays.
C30_WaitPositiveSufficient ==
    LET a == canMakeRequest(requests, now)
        d == getTimeUntilNextRequest(a.requests, now).ret
    IN  ~a.ret =>
           /\ 0 < d
           /\ d <= WINDOW_SIZE
           /\ \A later \in {d, d + 1, 1000 * CeilDiv(d, 1000), d + WINDOW_SIZE} :
                  canMakeRequest(a.requests, now + later).ret
C30_Witness ==
    /\ rOp = "timeUntil"
    /\ rPre = requests
    /\ ~canMakeRequest(requests, now).ret
    /\ rRet.v < WINDOW_SIZE

\* C26: with 'encrypt and store' off, a successful configuration hands the
\* trimmed key to the chat and closes the dialog, leaves the salt record and
\* the package as they were, and adds to the log only its two fixed entries.
C26_MemoryOnlyPersistsNothing ==
    [][dOp' = "configured_memory_only" /\ logged' = logged + 2 =>
          /\ ~useEncryption
          /\ storage' = storage
          /\ chatApiKey' \in {Units(Trim(k)) : k \in DialogKeys}
          /\ ~showApiKeyInput'
          /\ Len(logs') = Len(logs) + 2
          /\ \A i \in Len(logs) + 1 .. Len(logs') :
                 /\ logs'[i].details = [success |-> TRUE]
                 /\ logs'[i].event \in {"api_key_configured_memory_only",
                                        "api_key_configured"}]_vars
C26_Witness ==
    /\ dOp = "configured_memory_only"
    /\ chatApiKey # <<>>
    /\ ~showApiKeyInput
    /\ ~hasStoredApiKey(storage)

\* What a reader of localStorage finds in an entry.  The ciphertext is the
\* output of AES-GCM: its key and pt fields say which key opens it and to
\* what, they are not bytes a reader of the entry obtains.
SaltEntryHoldsSaltOnly(e) ==
    e = Null \/ (DOMAIN e = {"t", "v"} /\ e.t = "bytes" /\ e.v \in Salts)
PackageHoldsCiphertextAndIv(e) ==
    \/ e = Null
    \/ /\ DOMAIN e = {"t", "data", "iv"}
       /\ e.t = "pkg"
       /\ e.iv \in IVs
       /\ DOMAIN e.data = {"key", "iv", "pt", "intact"}
LogEntryHoldsFixedText(e) ==
    /\ DOMAIN e = {"timestamp", "event", "details", "userAgent"}
    /\ e.userAgent = "userAgent"
    /\ e.event \in {"api_key_validation_failed", "api_key_stored_encrypted",
                    "api_key_configured_memory_only", "api_key_configured",
                    "api_key_configuration_failed", "api_key_unlocked",
                    "api_key_unlock_failed", "stored_credentials_cleared"}
    /\ \/ e.details = [success |-> TRUE]
       \/ /\ DOMAIN e.details = {"reason"}
          /\ e.details.reason \in {"groq_rejected", "unknown_error",
                                   "encryption_error", "invalid_passphrase"}

\* C25: in every reachable state the salt record holds salt bytes only, the
\* package holds a ciphertext and its nonce only, and every log entry holds
\* fixed text: no entry holds the passphrase or the derived key.
C25_NoPassphraseNoKeyPersisted ==
    /\ SaltEntryHoldsSaltOnly(storage[SALT_KEY])
    /\ PackageHoldsCiphertextAndIv(storage[API_KEY])
    /\ \A i \in DOMAIN logs : LogEntryHoldsFixedText(logs[i])
C25_Witness ==
    /\ dOp = "stored_encrypted"
    /\ storage[SALT_KEY] # Null
    /\ storage[API_KEY] # Null
    /\ logs # <<>>

\* C24: when the provider call fails, whatever it raised, the assistant's
\* message is the one fixed fallback text; the error's detail is in the log
\* entry and not in the message; no further call leaves and no slot is taken.
C24_UniformProviderErrors ==
    [][inFlight' < inFlight /\ chOp' = "reply_error" =>
          /\ shown' = FallbackText
          /\ shown' \notin {reply.detail : reply \in Replies} \cup {"unknown"}
          /\ logs'[Len(logs')].event = "api_request_error"
          /\ logs'[Len(logs')].details.error
                \in {reply.detail : reply \in {x \in Replies : x.kind = "error"}}
                    \cup {"unknown"}
          /\ inFlight' = 0
          /\ pending' = NoCall
          /\ requests' = requests]_vars
C24_Witness ==
    /\ chOp = "reply_error"
    /\ shown = FallbackText
    /\ logs[Len(logs)].details.error = "401 Invalid API Key"

\* C22: the persisted log never holds more than MAX_LOGS entries, and as long
\* as storage worked and nothing else wrote the item it is exactly the latest
\* min(n, MAX_LOGS) of the n entries logged, in the order they were logged.
C22_BoundedOrdered ==
    /\ Len(logs) <= MAX_LOGS
    /\ history.clean => logs = LastN(history.calls, MAX_LOGS)
C22_Witness ==
    /\ history.clean
    /\ Len(history.calls) = MAX_LOGS + 2
    /\ logs[MAX_LOGS].timestamp > logs[MAX_LOGS - 1].timestamp

\* C23: a logEvent call never throws; when the log storage cannot be read or
\* written the log stays as it was and nothing else changes; the clear
\* handler that called it ends as it does when logging works.
C23_LoggingNeverGates ==
    [][logged' = logged + 1 =>
          /\ ~lCall'.threw
          /\ (lCall'.mode # "none" \/ logStatus = "notArray" =>
                 logs' = logs /\ logStatus' = logStatus)
          /\ (dOp' # dOp =>
                 /\ dOp' = "cleared"
                 /\ storage' = clearStoredCredentials(storage)
                 /\ ~isUnlocking' /\ ~useEncryption')
          /\ (dOp' = dOp =>
                 /\ storage' = storage
                 /\ UNCHANGED <<isUnlocking, useEncryption, dlgError>>)
          /\ UNCHANGED <<throttleVars, validatorVars, chatVars>>]_vars
C23_Witness ==
    /\ dOp = "cleared"
    /\ lCall.mode # "none"
    /\ ~lCall.threw
    /\ ~isUnlocking
    /\ storage[API_KEY] = Null

\* C28: when clearStoredCredentials ran while storeApiKey(S, P) was suspended
\* and both have completed, storage is empty or holds a package that
\* retrieveApiKey(P) opens to S, whatever salt a later call may draw.
C28_ClearDuringStore ==
    /\ storing.pc = "done"
    /\ storing.cleared
    /\ vOp \in {"store", "clear"}
    => \/ storage = [k \in {SALT_KEY, API_KEY} |-> Null]
       \/ \A s \in RandomSalts :
             retrieveApiKey(storage, storing.P, s, cryptoAvail).val = Str(storing.S)

\* C31: when the vault's entries are written only by completed storeApiKey,
\* retrieveApiKey and clearStoredCredentials calls, a persisted package always
\* comes with a persisted salt, and every retrieveApiKey call, whether it
\* returns the secret or null, leaves both entries as they were.
C31_RetrieveReadOnly ==
    [][/\ (hasStoredApiKey(storage) =>
              storage[SALT_KEY].t = "bytes" /\ storage[API_KEY].t = "pkg")
       /\ (vOp' = "retrieve" => storage' = storage)]_vars
C31_Witness ==
    /\ vOp = "retrieve"
    /\ vRel = "other"
    /\ vRet = Null
    /\ hasStoredApiKey(storage)
====
